---- MODULE Spec2Model ----
(***************************************************************************)
(* Proof-of-work ledger of rotsutc/Blockchain_Week_1_Task_1-2.             *)
(*                                                                         *)
(* The repository holds four variants of the same ledger:                  *)
(*   "T1"  src/Task_1.py        scalar payload, verify scans every block   *)
(*   "R1"  src/Task_1_rev_1.py  scalar payload, verify returns at the      *)
(*                              first failure                              *)
(*   "R2"  src/Task_1_rev_2.py  transaction list + Merkle root             *)
(*   "BC"  src/blockchain.py    configurable difficulty, genesis unmined   *)
(* The variable `variant` fixes which program a behaviour is a run of.     *)
(*                                                                         *)
(* Strings are sequences of naturals (character codes).  A SHA-256 hex     *)
(* digest is the string <<p>> \o s: p is the value of the digest's first   *)
(* PrefixLen digits, a deterministic mix of every character of the hashed  *)
(* string s, and the rest of the digest is s itself, so that two digests   *)
(* are equal exactly when the hashed strings are (collision resistance).   *)
(***************************************************************************)
EXTENDS Integers, Sequences, FiniteSets, TLC

VARIABLES variant, difficulty, hash_algorithm, chain, cand, pc, now, attack, ret,
          merkle_call, arg

vars == <<variant, difficulty, hash_algorithm, chain, cand, pc, now, attack, ret,
         merkle_call, arg>>

\* ------------------------------------------------------------------ bounds

\* Longest chain built (genesis included).
MaxLen == 3

\* Digits of a digest the model keeps as digits: the largest difficulty used.
PrefixLen == 5

\* Size of the digit alphabet of hexdigest(), scaled down from 16.
DigitBase == 2

\* ------------------------------------------------------------ Hash Engine

RECURSIVE Pow(_, _)
Pow(b, e) == IF e <= 0 THEN 1 ELSE b * Pow(b, e - 1)

PrefixSpace == Pow(DigitBase, PrefixLen)

\* Sum of the character codes (each plus one) of s[lo..hi], by halves.
RECURSIVE SumChars(_, _, _)
SumChars(s, lo, hi) ==
    IF lo > hi THEN 0
    ELSE IF lo = hi THEN s[lo] + 1
    ELSE LET mid == (lo + hi) \div 2
         IN  SumChars(s, lo, mid) + SumChars(s, mid + 1, hi)

\* The value of the first PrefixLen digits of the digest of s: every
\* character of s enters it.
Mix(s) == SumChars(s, 1, Len(s)) % PrefixSpace

\* hashlib.sha256(s.encode()).hexdigest(); the string is evaluated once and
\* named x.
Sha256Hex(s) == CHOOSE h \in {<<Mix(x)>> \o x : x \in {s}} : TRUE

\* A test for exactly d leading zeros and no more.
StartsWithZeros_Exactly(h, d) ==
    /\ d <= PrefixLen
    /\ h[1] < Pow(DigitBase, PrefixLen - d)
    /\ d < PrefixLen => h[1] >= Pow(DigitBase, PrefixLen - d - 1)

\* h.startswith("0" * d): "0" * d is the empty string when d <= 0.
StartsWithZeros(h, d) ==
    \/ d <= 0
    \/ /\ d <= PrefixLen
       /\ h[1] < Pow(DigitBase, PrefixLen - d)

\* Python values that occur as payloads: a str (its characters) or an int
\* (its decimal text).
PyStr(s) == [isStr |-> TRUE, text |-> s]
PyInt(s) == [isStr |-> FALSE, text |-> s]

\* The quote character of JSON; no payload text contains it unescaped.
Quote == 9

\* json.dumps of a str, of an int, of a payload value
JsonStr(s) == <<Quote, Len(s)>> \o s
JsonInt(n) == <<n>>
JsonValue(v) == IF v.isStr THEN JsonStr(v.text) ELSE v.text

\* Alphabetical rank of the header keys: json.dumps(..., sort_keys=True)
KeyRank ==
    [data |-> 1, index |-> 2, merkle_root |-> 3, nonce |-> 4,
     previous_hash |-> 5, timestamp |-> 6]

\* The items of a dict (in insertion order) sorted by key: the ranks of the
\* keys present, in ascending order, and for each the item that has it (the
\* keys of a dict are distinct).
SortItems(items) ==
    LET present(r) == \E i \in 1..Len(items) : KeyRank[items[i].k] = r
        ranks == SelectSeq(<<1, 2, 3, 4, 5, 6>>, present)
    IN  [k \in 1..Len(ranks) |->
            items[CHOOSE i \in 1..Len(items) : KeyRank[items[i].k] = ranks[k]]]

RECURSIVE Flatten(_)
Flatten(items) ==
    IF items = <<>> THEN <<>>
    ELSE <<KeyRank[Head(items).k]>> \o Head(items).v \o Flatten(Tail(items))

\* json.dumps(d) without sort_keys: the items in insertion order.
JsonDumps_Unsorted(items) == Flatten(items)

\* json.dumps(d, sort_keys=True)
JsonDumps(items) == Flatten(SortItems(items))

\* ------------------------------------------------------ Merkle Aggregator

\* tx_string = json.dumps(tx, sort_keys=True) if not isinstance(tx, str) else tx
TxString(tx) == IF tx.isStr THEN tx.text ELSE JsonValue(tx)

Leaves(txs) == [i \in 1..Len(txs) |-> Sha256Hex(TxString(txs[i]))]

\* A pass that drops the last node of an odd level.
NextLevel_DropOdd(level) ==
    [j \in 1..(Len(level) \div 2) |->
        Sha256Hex(level[2 * j - 1] \o level[2 * j])]

\* A pass that pairs the last node of an odd level with the empty string.
NextLevel_PadEmpty(level) ==
    [j \in 1..((Len(level) + 1) \div 2) |->
        LET left == level[2 * j - 1]
            right == IF 2 * j <= Len(level) THEN level[2 * j] ELSE <<>>
        IN  Sha256Hex(left \o right)]

\* One pass of the inner for loop: pairs (i, i+1), the last node paired with
\* itself when the level is odd.
NextLevel(level) ==
    [j \in 1..((Len(level) + 1) \div 2) |->
        LET left == level[2 * j - 1]
            right == IF 2 * j <= Len(level) THEN level[2 * j] ELSE left
        IN  Sha256Hex(left \o right)]

RECURSIVE FoldLevels(_)
FoldLevels(level) ==
    IF Len(level) > 1 THEN FoldLevels(NextLevel(level)) ELSE level[1]

\* A root function whose value for no transactions is the empty string.
calculate_merkle_root_EmptyString(txs) ==
    IF txs = <<>> THEN <<>> ELSE FoldLevels(Leaves(txs))

\* A root function whose while loop runs its body once before testing the
\* length: a single leaf is paired with itself.
calculate_merkle_root_PairSingle(txs) ==
    IF txs = <<>> THEN Sha256Hex(<<>>) ELSE FoldLevels(NextLevel(Leaves(txs)))

\* calculate_merkle_root: the digest of b'' for no transactions
calculate_merkle_root(txs) ==
    IF txs = <<>> THEN Sha256Hex(<<>>) ELSE FoldLevels(Leaves(txs))

\* ------------------------------------------------------------------ Block

\* The selectors blockchain.py knows, and the digest of a string under a
\* selector: one hashlib function per selector, SHA-256 for any other
\* value.  Digests of different functions differ: the function's tag is
\* hashed with the string.
SupportedAlgorithms == {"sha256", "sha512", "sha3-256", "sha3-512", "blake2b"}

Sha512Tag == 512
Sha3_256Tag == 3256
Sha3_512Tag == 3512
Blake2bTag == 2

HashHex(algorithm, s) ==
    IF algorithm = "sha256" THEN Sha256Hex(s)
    ELSE IF algorithm = "sha512" THEN Sha256Hex(<<Sha512Tag>> \o s)
    ELSE IF algorithm = "sha3-256" THEN Sha256Hex(<<Sha3_256Tag>> \o s)
    ELSE IF algorithm = "sha3-512" THEN Sha256Hex(<<Sha3_512Tag>> \o s)
    ELSE IF algorithm = "blake2b" THEN Sha256Hex(<<Blake2bTag>> \o s)
    ELSE Sha256Hex(s)

Variants == {"T1", "R1", "R2", "BC"}

\* previous_hash of the genesis block: the string "0"
Sentinel == <<0>>

\* The scalar variants have no merkle_root attribute.
NoMerkle == <<>>

\* block_dict / block_header of calculate_hash, in insertion order
HeaderItems(v, b) ==
    IF v = "R2"
    THEN << [k |-> "index", v |-> JsonInt(b.index)],
            [k |-> "timestamp", v |-> JsonInt(b.timestamp)],
            [k |-> "merkle_root", v |-> JsonStr(b.merkle_root)],
            [k |-> "previous_hash", v |-> JsonStr(b.previous_hash)],
            [k |-> "nonce", v |-> JsonInt(b.nonce)] >>
    ELSE << [k |-> "index", v |-> JsonInt(b.index)],
            [k |-> "timestamp", v |-> JsonInt(b.timestamp)],
            [k |-> "data", v |-> JsonValue(b.data)],
            [k |-> "previous_hash", v |-> JsonStr(b.previous_hash)],
            [k |-> "nonce", v |-> JsonInt(b.nonce)] >>

\* A digest that also reads the clock.
calculate_hash_Clocked(v, b) ==
    HashHex(b.hash_algorithm, <<now>> \o JsonDumps(HeaderItems(v, b)))

\* Block.calculate_hash
calculate_hash(v, b) == HashHex(b.hash_algorithm, JsonDumps(HeaderItems(v, b)))

\* A constructor that leaves the digest to the miner.
NewBlock_Unhashed(v, index, timestamp, data, previous_hash, algorithm) ==
    [index |-> index, timestamp |-> timestamp, data |-> data,
     hash_algorithm |-> algorithm,
     merkle_root |-> IF v = "R2" THEN calculate_merkle_root(data) ELSE NoMerkle,
     previous_hash |-> previous_hash, nonce |-> 0, hash |-> <<>>]

\* Block.__init__: nonce 0, merkle_root (R2) and hash computed eagerly
NewBlock(v, index, timestamp, data, previous_hash, algorithm) ==
    LET b0 == [index |-> index, timestamp |-> timestamp, data |-> data,
               hash_algorithm |-> algorithm,
               merkle_root |-> IF v = "R2" THEN calculate_merkle_root(data)
                               ELSE NoMerkle,
               previous_hash |-> previous_hash, nonce |-> 0, hash |-> <<>>]
    IN  [b0 EXCEPT !.hash = calculate_hash(v, b0)]

\* ------------------------------------------------------------------ Chain

\* self.difficulty of the variants whose constructor fixes it
FixedDifficulty == [T1 |-> 4, R1 |-> 5, R2 |-> 4]

\* difficulty arguments of Blockchain(difficulty=...) in blockchain.py:
\* no proof of work, and quick_demo's 3
DifficultyInputs == {0, 3}

GenesisText == <<0>>

\* data of the genesis block
GenesisData(v) == IF v = "R2" THEN <<PyStr(GenesisText)>> ELSE PyStr(GenesisText)

\* Payloads handed to append: two strings and an int for the scalar
\* variants; transaction lists (empty, one, two, three records) for R2.
PayloadInputs(v) ==
    IF v = "R2"
    THEN { <<PyStr(<<1>>), PyStr(<<2>>), PyStr(<<3>>)>>,
           <<PyStr(<<1>>), PyInt(<<2>>)>>,
           <<PyStr(<<1>>)>>,
           <<>> }
    ELSE { PyStr(<<1>>), PyStr(<<2>>), PyInt(<<3>>) }

\* get_latest_block
Latest(c) == c[Len(c)]

\* An append that overwrites the tip instead of adding after it.
Push_ReplaceTip(c, b) ==
    IF c = <<>> THEN <<b>> ELSE [c EXCEPT ![Len(c)] = b]

\* self.chain.append(block)
Push(c, b) == Append(c, b)

\* The return value of the last is_chain_valid call, cleared by every other
\* call: valid, the messages printed (check, position i, block number
\* shown) and the checks evaluated, in order.
NoRet ==
    [op |-> "none", valid |-> TRUE, fails |-> <<>>, reports |-> <<>>,
     trace |-> <<>>]

\* What run_attack_test's attack_logic did to the copy it works on: the
\* attribute overwritten, the position of the block, whether
\* update_merkle_root() followed, whether the chain was mined again from
\* that block on, and (for the record) whether the chain was valid before.
NoAttack ==
    [kind |-> "none", pos |-> 0, updated |-> FALSE, resealed |-> FALSE,
     valid_before |-> TRUE]

attacked == attack.kind # "none"

\* A call of calculate_merkle_root: its argument and, once it has returned,
\* its return value.  No call is in progress while a chain is in use.
NoMerkleCall == [transactions |-> <<>>, returned |-> FALSE, root |-> <<>>]

\* The argument of the client's call of mine_block or add_block, where a
\* property is about the argument: whether it is a list, and its value.
NoArg == [op |-> "none", isList |-> FALSE, value |-> <<>>]

\* The Task_1 programs call hashlib.sha256; blockchain.py's constructor
\* takes the selector, "sha256" by default, and hands it to every block.
DefaultAlgorithm == "sha256"

ChainAlgorithm(v) == IF v = "BC" THEN hash_algorithm ELSE DefaultAlgorithm

Init ==
    /\ variant \in Variants
    /\ difficulty \in (IF variant = "BC" THEN DifficultyInputs
                       ELSE {FixedDifficulty[variant]})
    /\ hash_algorithm = DefaultAlgorithm
    /\ chain = <<>>
    /\ cand = <<>>
    /\ pc = "new"
    /\ now = 1
    /\ attack = NoAttack
    /\ ret = NoRet
    /\ merkle_call = NoMerkleCall
    /\ arg = NoArg

\* time.time() on a clock that does not run backwards: between two reads
\* it stands still or advances by one tick.
ReadClock(t) == t \in now..(now + 1) /\ now' = t

\* Clock values of a run: the clock reads 1 at construction and is read
\* once more per appended block.
Clock == 1..MaxLen

\* Blockchain.__init__ / create_genesis_block.  blockchain.py appends the
\* genesis block as constructed; the Task_1 variants mine it first.
CreateGenesisBlock ==
    /\ pc = "new"
    /\ \E t \in {now} :
        /\ ReadClock(t)
        /\ LET g == NewBlock(variant, 0, t, GenesisData(variant), Sentinel,
                            ChainAlgorithm(variant))
           IN  IF variant = "BC"
               THEN chain' = Push(chain, g) /\ cand' = <<>> /\ pc' = "idle"
               ELSE chain' = <<>> /\ cand' = <<g>> /\ pc' = "mine"
    /\ ret' = NoRet
    /\ UNCHANGED <<arg, merkle_call, variant, difficulty, hash_algorithm, attack>>

\* An append that runs genesis creation again: index 0 after the sentinel.
Candidate_Genesis(v, c, t, data) ==
    NewBlock(v, 0, t, data, Sentinel, ChainAlgorithm(v))

\* A candidate numbered like the tip and linked to the sentinel.
Candidate_Unlinked(v, c, t, data) ==
    NewBlock(v, Latest(c).index, t, data, Sentinel, ChainAlgorithm(v))

\* The block append builds from the tip.  Task_1 variants: mine_block
\* constructs it with index latest.index + 1 and add_block overwrites its
\* previous_hash with the tip's digest; blockchain.py: index len(chain).
Candidate(v, c, t, data) ==
    LET latest == Latest(c)
        index == IF v = "BC" THEN Len(c) ELSE latest.index + 1
        b == NewBlock(v, index, t, data, latest.hash, ChainAlgorithm(v))
    IN  IF v = "BC" THEN b ELSE [b EXCEPT !.previous_hash = Latest(c).hash]

\* mine_block(data) of the Task_1 variants up to the mining loop of
\* add_block; add_block(data) of blockchain.py up to mine_block.
StartAppend ==
    /\ pc = "idle"
    /\ Len(chain) < MaxLen
    /\ \E data \in PayloadInputs(variant), t \in Clock :
        /\ ReadClock(t)
        /\ cand' = <<Candidate(variant, chain, t, data)>>
    /\ pc' = "mine"
    /\ ret' = NoRet
    /\ UNCHANGED <<arg, merkle_call, variant, difficulty, hash_algorithm, chain, attack>>

\* The loop condition of the miner.  The Task_1 variants test the digest
\* recomputed from the fields; blockchain.py tests the stored digest.
TargetMet(v, b, d) ==
    IF v = "BC" THEN StartsWithZeros(b.hash, d)
    ELSE StartsWithZeros(calculate_hash(v, b), d)

\* An iteration that also takes a new timestamp.
MineStepBlock_Restamp(v, b) ==
    LET b1 == [b EXCEPT !.nonce = b.nonce + 1, !.timestamp = b.timestamp + 1]
    IN  IF v = "BC" THEN [b1 EXCEPT !.hash = calculate_hash(v, b1)] ELSE b1

\* One iteration of the mining loop.
MineStepBlock(v, b) ==
    LET b1 == [b EXCEPT !.nonce = b.nonce + 1]
    IN  IF v = "BC" THEN [b1 EXCEPT !.hash = calculate_hash(v, b1)] ELSE b1

MineStep ==
    /\ pc = "mine"
    /\ ~TargetMet(variant, cand[1], difficulty)
    /\ cand' = <<MineStepBlock(variant, cand[1])>>
    /\ UNCHANGED <<arg, merkle_call, variant, difficulty, hash_algorithm, chain, pc, now,
                   attack, ret>>

\* A miner whose result is dropped: block.hash keeps the digest of nonce 0.
SealedBlock_Stale(v, b) ==
    [b EXCEPT !.hash = calculate_hash(v, [b EXCEPT !.nonce = 0])]

\* A miner that steps on once more as it leaves the loop.
SealedBlock_Bumped(v, b) ==
    LET b1 == [b EXCEPT !.nonce = b.nonce + 1]
    IN  [b1 EXCEPT !.hash = calculate_hash(v, b1)]

\* The block as it is when the miner returns: the Task_1 variants assign
\* the returned digest to block.hash.
SealedBlock(v, b) ==
    IF v = "BC" THEN b ELSE [b EXCEPT !.hash = calculate_hash(v, b)]

\* Loop exit, then self.chain.append(block).
FinishMine ==
    /\ pc = "mine"
    /\ TargetMet(variant, cand[1], difficulty)
    /\ chain' = Push(chain, SealedBlock(variant, cand[1]))
    /\ cand' = <<>>
    /\ pc' = "idle"
    /\ UNCHANGED <<arg, merkle_call, variant, difficulty, hash_algorithm, now, attack, ret>>

\* ----------------------------------------------------------------- verify

\* The checks with digest and linkage swapped in every variant.
ChecksOf_Swapped(v) ==
    CASE v = "R2" -> <<"index", "merkle", "link", "hash", "pow", "time">>
      [] v = "BC" -> <<"link", "hash", "pow">>
      [] OTHER    -> <<"index", "hash", "link", "pow", "time", "type">>

\* The checks is_chain_valid makes on block i >= 1, in the order of the code.
ChecksOf(v) ==
    CASE v = "R2" -> <<"index", "link", "merkle", "hash", "pow", "time">>
      [] v = "BC" -> <<"hash", "link", "pow">>
      [] OTHER    -> <<"index", "link", "hash", "pow", "time", "type">>

\* The loop body with one of its `if` statements left out.
CheckFailsWithout(skipped, v, d, c, p, check) ==
    LET current == c[p]
        previous == c[p - 1]
    IN  /\ check # skipped
        /\ CASE check = "index"  -> current.index # previous.index + 1
             [] check = "link"   -> current.previous_hash # previous.hash
             [] check = "merkle" ->
                   current.merkle_root # calculate_merkle_root(current.data)
             [] check = "hash"   -> current.hash # calculate_hash(v, current)
             [] check = "pow"    -> ~StartsWithZeros(current.hash, d)
             [] check = "time"   -> current.timestamp < previous.timestamp
             [] check = "type"   -> ~current.data.isStr

CheckFails_NoLink(v, d, c, p, check) == CheckFailsWithout("link", v, d, c, p, check)

CheckFails_NoIndex(v, d, c, p, check) == CheckFailsWithout("index", v, d, c, p, check)

CheckFails_NoHash(v, d, c, p, check) == CheckFailsWithout("hash", v, d, c, p, check)

CheckFails_NoTime(v, d, c, p, check) == CheckFailsWithout("time", v, d, c, p, check)

CheckFails_NoType(v, d, c, p, check) == CheckFailsWithout("type", v, d, c, p, check)

\* The condition of one `if` of the loop body; c[p] is self.chain[p - 1].
CheckFails(v, d, c, p, check) ==
    LET current == c[p]
        previous == c[p - 1]
    IN  CASE check = "index"  -> current.index # previous.index + 1
          [] check = "link"   -> current.previous_hash # previous.hash
          [] check = "merkle" ->
                current.merkle_root # calculate_merkle_root(current.data)
          [] check = "hash"   -> current.hash # calculate_hash(v, current)
          [] check = "pow"    -> ~StartsWithZeros(current.hash, d)
          [] check = "time"   -> current.timestamp < previous.timestamp
          [] check = "type"   -> ~current.data.isStr

\* Whether the variant checks the genesis block, and the check's condition.
ChecksGenesis(v) == v # "BC"

GenesisFails(v, c) ==
    LET genesis == c[1]
    IN  \/ genesis.index # 0
        \/ genesis.previous_hash # Sentinel
        \/ v \in {"T1", "R1"} /\ genesis.hash # calculate_hash(v, genesis)

\* Task_1.py sets is_valid = False and goes on; the others return False.
StopsAtFirst(v) == v # "T1"

\* The block number a message shows: the block's index field, or the loop
\* variable i in blockchain.py.
Shown(v, c, p) == IF v = "BC" THEN p - 1 ELSE c[p].index

Fail(acc, check, i, shown) ==
    [acc EXCEPT !.valid = FALSE,
                !.fails = Append(@, <<i, check>>),
                !.reports = Append(@, [check |-> check, i |-> i, shown |-> shown])]

\* The loop over i = 1 .. len(chain) - 1 and over the checks of one block,
\* from step j on.
RECURSIVE Scan(_, _, _, _, _)
Scan(v, d, c, j, acc) ==
    LET checks == ChecksOf(v)
        p == 2 + ((j - 1) \div Len(checks))
        check == checks[((j - 1) % Len(checks)) + 1]
        seen == [acc EXCEPT !.trace = Append(@, <<p - 1, check>>)]
    IN  IF j > (Len(c) - 1) * Len(checks) THEN acc
        ELSE IF CheckFails(v, d, c, p, check)
        THEN LET failed == Fail(seen, check, p - 1, Shown(v, c, p))
             IN  IF StopsAtFirst(v) THEN failed ELSE Scan(v, d, c, j + 1, failed)
        ELSE Scan(v, d, c, j + 1, seen)

\* The genesis check, then the loop.
ScanFromGenesis(v, d, c) ==
    LET start == [valid |-> TRUE, fails |-> <<>>, reports |-> <<>>, trace |-> <<>>]
        seen == [start EXCEPT !.trace = <<<<0, "genesis">>>>]
    IN  IF ~ChecksGenesis(v) THEN Scan(v, d, c, 1, start)
        ELSE IF GenesisFails(v, c)
        THEN LET failed == Fail(seen, "genesis", 0, 0)
             IN  IF StopsAtFirst(v) THEN failed ELSE Scan(v, d, c, 1, failed)
        ELSE Scan(v, d, c, 1, seen)

\* Whether messages are printed: rev_1 and rev_2 print under verbose only.
Prints(v, verbose) == verbose \/ v \in {"T1", "BC"}

\* Blockchain.is_chain_valid: the value returned (valid), the branches that
\* found a failure (fails), the messages printed (reports) and the checks
\* evaluated (trace).
is_chain_valid(v, d, c, verbose) ==
    LET r == ScanFromGenesis(v, d, c)
    IN  [op |-> "verify", valid |-> r.valid, fails |-> r.fails,
         reports |-> IF Prints(v, verbose) THEN r.reports ELSE <<>>,
         trace |-> r.trace]

\* A verify that repairs what it finds: it stores the recomputed digests.
AfterVerify_Repair(v, c) ==
    [p \in 1..Len(c) |-> [c[p] EXCEPT !.hash = calculate_hash(v, c[p])]]

\* The chain after is_chain_valid has run: the method assigns nothing.
AfterVerify(v, c) == c

IsChainValid ==
    /\ pc = "idle"
    /\ \E verbose \in (IF variant \in {"R1", "R2"} THEN BOOLEAN ELSE {TRUE}) :
           ret' = is_chain_valid(variant, difficulty, chain, verbose)
    /\ chain' = AfterVerify(variant, chain)
    /\ UNCHANGED <<arg, merkle_call, variant, difficulty, hash_algorithm, cand, pc, now, attack>>

Next == CreateGenesisBlock \/ StartAppend \/ MineStep \/ FinishMine \/ IsChainValid

\* Construction, append and verify: the operations of normal use.
Spec == Init /\ [][Next]_vars

\* Arguments of Blockchain(difficulty, hash_algorithm) in blockchain.py
\* beyond the defaults: a negative difficulty, and a selector the class
\* does not know.
DifficultyArguments == DifficultyInputs \cup {0 - 1}
AlgorithmArguments == {"sha256", "sha512", "md5"}

ConstructInit ==
    /\ variant \in Variants
    /\ difficulty \in (IF variant = "BC" THEN DifficultyArguments
                       ELSE {FixedDifficulty[variant]})
    /\ hash_algorithm \in (IF variant = "BC" THEN AlgorithmArguments
                           ELSE {DefaultAlgorithm})
    /\ chain = <<>>
    /\ cand = <<>>
    /\ pc = "new"
    /\ now = 1
    /\ attack = NoAttack
    /\ ret = NoRet
    /\ merkle_call = NoMerkleCall
    /\ arg = NoArg

\* Normal use of a chain constructed with any arguments.
ConstructSpec == ConstructInit /\ [][Next]_vars

\* --------------------------------------------------------------- tampering
\* The attack scenarios of the __main__ blocks and of demonstrate_tampering:
\* an attribute of a block in the chain is overwritten from outside.

\* A digest-like string that is no digest: all zero digits ("0" * 64), and
\* one whose first digit is not zero ("1234" + "a" * 60).
ZeroHash == <<0, Quote>>
BadPowHash == <<PrefixSpace - 1, Quote>>
ForgedHashes == {ZeroHash, BadPowHash}

\* Values written over block.data.
TamperPayloads(v) ==
    IF v = "R2"
    THEN { <<PyStr(<<4>>), PyStr(<<2>>), PyStr(<<3>>)>>,
           <<PyStr(<<1>>), PyStr(<<2>>), PyStr(<<3>>), PyStr(<<3>>)>>,
           <<PyStr(<<4>>)>> }
    ELSE { PyStr(<<4>>), PyInt(<<5>>) }

\* Values written over block.index and block.timestamp.
TamperIndexes == {0, 5}
TamperTimestamps == {0, MaxLen + 1}

\* run_attack_test applies one attack to a copy of a chain at rest.
CanTamper == pc = "idle" /\ ~attacked

Tampered(kind, p, b) ==
    /\ chain' = [chain EXCEPT ![p] = b]
    /\ attack' = [kind |-> kind, pos |-> p, updated |-> FALSE,
                  resealed |-> FALSE,
                  valid_before |->
                      is_chain_valid(variant, difficulty, chain, TRUE).valid]
    /\ ret' = NoRet
    /\ UNCHANGED <<arg, merkle_call, variant, difficulty, hash_algorithm, cand, pc, now>>

\* chain.chain[k].data = ... (or data[0] = ...)
TamperData ==
    /\ CanTamper
    /\ \E p \in 1..Len(chain), d \in TamperPayloads(variant) :
        /\ d # chain[p].data
        /\ Tampered("data", p, [chain[p] EXCEPT !.data = d])

\* chain.chain[k].index = ...
TamperIndex ==
    /\ CanTamper
    /\ \E p \in 1..Len(chain), n \in TamperIndexes :
        /\ n # chain[p].index
        /\ Tampered("index", p, [chain[p] EXCEPT !.index = n])

\* chain.chain[k].previous_hash = ...
TamperPreviousHash ==
    /\ CanTamper
    /\ \E p \in 1..Len(chain), h \in ForgedHashes :
        Tampered("previous_hash", p,
                 [chain[p] EXCEPT !.previous_hash = h])

\* chain.chain[k].hash = ...
TamperHash ==
    /\ CanTamper
    /\ \E p \in 1..Len(chain), h \in ForgedHashes :
        Tampered("hash", p, [chain[p] EXCEPT !.hash = h])

\* chain.chain[k].timestamp = ...
TamperTimestamp ==
    /\ CanTamper
    /\ \E p \in 1..Len(chain), t \in TamperTimestamps :
        /\ t # chain[p].timestamp
        /\ Tampered("timestamp", p, [chain[p] EXCEPT !.timestamp = t])

\* chain.chain[k].update_merkle_root(), the second statement of
\* attack_smart_modify
UpdateMerkleRoot ==
    /\ pc = "idle"
    /\ variant = "R2"
    /\ attacked
    /\ LET p == attack.pos
           root == calculate_merkle_root(chain[p].data)
       IN  /\ attack.kind = "data"
           /\ ~attack.updated
           /\ chain' = [chain EXCEPT ![p].merkle_root = root]
    /\ attack' = [attack EXCEPT !.updated = TRUE]
    /\ ret' = NoRet
    /\ UNCHANGED <<arg, merkle_call, variant, difficulty, hash_algorithm, cand, pc, now>>

Tamper ==
    \/ TamperData
    \/ TamperIndex
    \/ TamperPreviousHash
    \/ TamperHash
    \/ TamperTimestamp
    \/ UpdateMerkleRoot

\* run_attack_test: the attack works on a copy of a chain built by normal
\* use, which is then verified; nothing is appended to the copy.
Untouched == ~attacked

TamperNext ==
    \/ CreateGenesisBlock
    \/ Untouched /\ StartAppend
    \/ MineStep
    \/ FinishMine
    \/ IsChainValid
    \/ Tamper

TamperSpec == Init /\ [][TamperNext]_vars

\* ---------------------------------------------------------------- re-seal
\* The attacker of the docstrings ("recalculate hash ... change ALL blocks
\* after it"): after overwriting an attribute of block k, they run the
\* program's own miner over block k and over every block after it.

\* The miner run to completion on a block: mine_block_internal, or
\* blockchain.py's mine_block, from the block's current nonce.
RECURSIVE MineBlock(_, _, _)
MineBlock(v, b, d) ==
    IF TargetMet(v, b, d) THEN SealedBlock(v, b)
    ELSE MineBlock(v, MineStepBlock(v, b), d)

\* One block sealed again on top of the block before it: the link is set,
\* rev_2's Merkle root and the stored digest are recomputed, and the block
\* is mined.  (blockchain.py's loop tests the stored digest, so the digest
\* is recomputed before the miner is called.)
ResealBlock(v, b, d, prev) ==
    LET linked == [b EXCEPT !.previous_hash = prev]
        rooted == IF v = "R2"
                  THEN [linked EXCEPT !.merkle_root = calculate_merkle_root(linked.data)]
                  ELSE linked
        hashed == [rooted EXCEPT !.hash = calculate_hash(v, rooted)]
    IN  MineBlock(v, hashed, d)

\* The chain with the blocks from position p on sealed again, in order.
RECURSIVE ResealFrom(_, _, _, _)
ResealFrom(v, d, c, p) ==
    IF p > Len(c) THEN c
    ELSE LET prev == IF p = 1 THEN c[p].previous_hash ELSE c[p - 1].hash
         IN  ResealFrom(v, d, [c EXCEPT ![p] = ResealBlock(v, c[p], d, prev)], p + 1)

Reseal ==
    /\ pc = "idle"
    /\ attacked
    /\ ~attack.resealed
    /\ chain' = ResealFrom(variant, difficulty, chain, attack.pos)
    /\ attack' = [attack EXCEPT !.resealed = TRUE]
    /\ ret' = NoRet
    /\ UNCHANGED <<arg, merkle_call, variant, difficulty, hash_algorithm, cand, pc, now>>

ResealNext ==
    \/ CreateGenesisBlock
    \/ Untouched /\ StartAppend
    \/ MineStep
    \/ FinishMine
    \/ IsChainValid
    \/ TamperData
    \/ TamperTimestamp
    \/ Reseal

\* Construction, append and verify, one overwritten payload or timestamp,
\* and the re-seal of the chain after it.
ResealSpec == Init /\ [][ResealNext]_vars

\* The block at attack.pos alone sealed again (link kept, Merkle root and
\* digest recomputed, mined); the blocks after it are left as they were.
ResealOne ==
    /\ pc = "idle"
    /\ attacked
    /\ ~attack.resealed
    /\ chain' = [chain EXCEPT
                    ![attack.pos] = ResealBlock(variant, chain[attack.pos], difficulty,
                                                chain[attack.pos].previous_hash)]
    /\ attack' = [attack EXCEPT !.resealed = TRUE]
    /\ ret' = NoRet
    /\ UNCHANGED <<arg, merkle_call, variant, difficulty, hash_algorithm, cand, pc, now>>

ResealOneNext ==
    \/ CreateGenesisBlock
    \/ Untouched /\ StartAppend
    \/ MineStep
    \/ FinishMine
    \/ IsChainValid
    \/ TamperData
    \/ ResealOne

ResealOneSpec == Init /\ [][ResealOneNext]_vars

\* ----------------------------------------------------------------- re-mine
\* The miner called on a block already in the chain, as it is after an
\* attribute was overwritten: block.hash = mine_block_internal(block) in the
\* Task_1 variants, mine_block(block) in blockchain.py.  attack.resealed
\* records that the miner has run.
Remine ==
    /\ pc = "idle"
    /\ attacked
    /\ ~attack.resealed
    /\ chain' = [chain EXCEPT
                    ![attack.pos] = MineBlock(variant, chain[attack.pos], difficulty)]
    /\ attack' = [attack EXCEPT !.resealed = TRUE]
    /\ ret' = NoRet
    /\ UNCHANGED <<arg, merkle_call, variant, difficulty, hash_algorithm, cand, pc, now>>

RemineNext ==
    \/ CreateGenesisBlock
    \/ Untouched /\ StartAppend
    \/ MineStep
    \/ FinishMine
    \/ IsChainValid
    \/ TamperData
    \/ TamperHash
    \/ Remine

RemineSpec == Init /\ [][RemineNext]_vars

\* The miner is a loop of one thread with no blocking call: an iteration
\* that can run does run, and so does the return.
MinerFairness == WF_vars(MineStep) /\ WF_vars(FinishMine)

RemineLiveSpec == RemineSpec /\ MinerFairness

\* ------------------------------------------- calculate_merkle_root, called

\* Longest transaction list handed to calculate_merkle_root.
MaxTx == 5

\* The records of a transaction list: two strings and an int.
TxRecords == {PyStr(<<1>>), PyStr(<<2>>), PyInt(<<3>>)}

\* The lists of at most n records.
RECURSIVE TxLists(_)
TxLists(n) ==
    IF n = 0 THEN {<<>>}
    ELSE LET shorter == TxLists(n - 1)
         IN  shorter \cup {Append(l, r) : l \in {s \in shorter : Len(s) = n - 1},
                                           r \in TxRecords}

\* calculate_merkle_root(transactions) is about to be called.
MerkleInit ==
    /\ variant = "R2"
    /\ difficulty = FixedDifficulty[variant]
    /\ hash_algorithm = DefaultAlgorithm
    /\ chain = <<>>
    /\ cand = <<>>
    /\ pc = "new"
    /\ now = 1
    /\ attack = NoAttack
    /\ ret = NoRet
    /\ \E txs \in TxLists(MaxTx) :
           merkle_call = [transactions |-> txs, returned |-> FALSE, root |-> <<>>]
    /\ arg = NoArg

\* The call returns.
CalculateMerkleRoot ==
    /\ ~merkle_call.returned
    /\ merkle_call' = [merkle_call EXCEPT
                          !.returned = TRUE,
                          !.root = calculate_merkle_root(merkle_call.transactions)]
    /\ UNCHANGED <<arg, variant, difficulty, hash_algorithm, chain, cand, pc, now,
                   attack, ret>>

MerkleNext == CalculateMerkleRoot

MerkleSpec == MerkleInit /\ [][MerkleNext]_vars

\* ------------------------------------------------------- the call's argument
\* What clients hand to mine_block / add_block(data): the Merkle variant is
\* given lists and values that are not lists, the others a payload.
MineBlockArguments(v) ==
    IF v = "R2"
    THEN { [op |-> "mine_block", isList |-> TRUE, value |-> l] :
               l \in PayloadInputs(v) }
         \cup
         { [op |-> "mine_block", isList |-> FALSE, value |-> x] :
               x \in {PyStr(<<1, 2>>), PyInt(<<3>>)} }
    ELSE { [op |-> "mine_block", isList |-> FALSE, value |-> x] :
               x \in PayloadInputs(v) }

\* A mine_block that hands its argument on as it is: a str is a sequence
\* of its characters.
TransactionsOf_Unwrapped(v, a) ==
    IF v = "R2" /\ ~a.isList
    THEN [i \in 1..Len(a.value.text) |-> PyStr(<<a.value.text[i]>>)]
    ELSE a.value

\* The payload the block is built with: mine_block of the Merkle variant
\* puts an argument that is not a list into a list of one element.
TransactionsOf(v, a) ==
    IF v = "R2" /\ ~a.isList THEN <<a.value>> ELSE a.value

\* mine_block(argument) up to the mining loop, the argument kept.
MineBlockCall ==
    /\ pc = "idle"
    /\ Len(chain) < MaxLen
    /\ \E a \in MineBlockArguments(variant), t \in Clock :
        /\ ReadClock(t)
        /\ arg' = a
        /\ cand' = <<Candidate(variant, chain, t, TransactionsOf(variant, a))>>
    /\ pc' = "mine"
    /\ ret' = NoRet
    /\ UNCHANGED <<merkle_call, variant, difficulty, hash_algorithm, chain, attack>>

CallNext ==
    \/ CreateGenesisBlock
    \/ MineBlockCall
    \/ MineStep
    \/ FinishMine
    \/ IsChainValid

CallSpec == Init /\ [][CallNext]_vars

\* ------------------------------------------------------- a batch in a block
\* A batch of transactions, its Merkle root computed, mined into blocks of
\* the Merkle variant; afterwards a copy of the last record is appended to
\* the transaction list of one block (block.data.append(block.data[-1])),
\* merkle_root and hash left as they are.
MineBatch ==
    /\ pc = "idle"
    /\ ~attacked
    /\ Len(chain) < MaxLen
    /\ \E t \in Clock :
        /\ ReadClock(t)
        /\ cand' = <<Candidate(variant, chain, t, merkle_call.transactions)>>
    /\ pc' = "mine"
    /\ ret' = NoRet
    /\ UNCHANGED <<arg, merkle_call, variant, difficulty, hash_algorithm, chain, attack>>

AppendCopyOfLast ==
    /\ CanTamper
    /\ \E p \in 2..Len(chain) :
        LET txs == chain[p].data
        IN  /\ Len(txs) >= 1
            /\ Tampered("data", p, [chain[p] EXCEPT !.data = Append(txs, txs[Len(txs)])])

BatchNext ==
    \/ CalculateMerkleRoot
    \/ CreateGenesisBlock
    \/ MineBatch
    \/ MineStep
    \/ FinishMine
    \/ IsChainValid
    \/ AppendCopyOfLast

BatchSpec == MerkleInit /\ [][BatchNext]_vars

\* ------------------------------------------------- a payload json rejects
\* A Python value json.dumps cannot write (a set): TypeError.
PySet(s) == [isStr |-> FALSE, isSet |-> TRUE, text |-> s]
Serializable(x) == "isSet" \notin DOMAIN x

\* Whether Block.__init__ completes: calculate_hash serializes data
\* (Task_1.py, Task_1_rev_1.py, blockchain.py); calculate_merkle_root
\* serializes every transaction that is not a str (Task_1_rev_2.py).
Constructs(v, data) ==
    IF v = "R2" THEN \A i \in 1..Len(data) : Serializable(data[i])
    ELSE Serializable(data)

UnserializableArguments(v) ==
    IF v = "R2"
    THEN { [op |-> "mine_block", isList |-> TRUE,
            value |-> <<PyStr(<<1>>), PySet(<<2>>)>>],
           [op |-> "mine_block", isList |-> FALSE, value |-> PySet(<<2>>)] }
    ELSE { [op |-> "mine_block", isList |-> FALSE, value |-> PySet(<<2>>)] }

\* A failed call that leaves the block it was building in the chain.
AfterRaise_Pushed(v, c, t, data) == Push(c, Candidate(v, c, t, data))

\* The chain after Block(...) has raised inside mine_block / add_block(data):
\* the exception leaves the method before add_block, mining and append.
AfterRaise(v, c, t, data) == c

\* mine_block(argument) with an argument the constructor raises on.
MineBlockRaises ==
    /\ pc = "idle"
    /\ \E a \in UnserializableArguments(variant), t \in Clock :
        /\ ReadClock(t)
        /\ ~Constructs(variant, TransactionsOf(variant, a))
        /\ arg' = a
        /\ chain' = AfterRaise(variant, chain, t, TransactionsOf(variant, a))
    /\ ret' = [NoRet EXCEPT !.op = "raise"]
    /\ UNCHANGED <<merkle_call, variant, difficulty, hash_algorithm, cand, pc, attack>>

RaiseNext ==
    \/ CreateGenesisBlock
    \/ MineBlockCall
    \/ MineBlockRaises
    \/ MineStep
    \/ FinishMine
    \/ IsChainValid

RaiseSpec == Init /\ [][RaiseNext]_vars

\* ------------------------------------------------- the difficulty attribute
\* Values the client assigns to chain.difficulty after blocks were mined.
DifficultySettings == 0..PrefixLen

\* chain.difficulty = d, after which the chain is verified, not extended.
SetDifficulty ==
    /\ CanTamper
    /\ \E d \in DifficultySettings :
        /\ d # difficulty
        /\ difficulty' = d
    /\ attack' = [kind |-> "difficulty", pos |-> 0, updated |-> FALSE,
                  resealed |-> FALSE,
                  valid_before |->
                      is_chain_valid(variant, difficulty, chain, TRUE).valid]
    /\ ret' = NoRet
    /\ UNCHANGED <<arg, merkle_call, variant, hash_algorithm, chain, cand, pc, now>>

DifficultyNext ==
    \/ CreateGenesisBlock
    \/ Untouched /\ StartAppend
    \/ MineStep
    \/ FinishMine
    \/ IsChainValid
    \/ SetDifficulty

DifficultySpec == Init /\ [][DifficultyNext]_vars

\* ------------------------------------------------------------ mine, called
\* The miner called on a block of the chain (mine_block_internal and the
\* assignment of its result, or blockchain.py's mine_block): any block of
\* an untouched chain, or the block that was changed; the block as it was
\* at entry is kept as the call's argument.
MineCall ==
    /\ pc = "idle"
    /\ \E p \in 1..Len(chain) :
        /\ attacked => p = attack.pos
        /\ arg' = [op |-> "mine", isList |-> FALSE, value |-> chain[p]]
        /\ chain' = [chain EXCEPT ![p] = MineBlock(variant, chain[p], difficulty)]
        /\ attack' = IF attacked THEN [attack EXCEPT !.resealed = TRUE]
                     ELSE [kind |-> "mine", pos |-> p, updated |-> FALSE,
                           resealed |-> TRUE,
                           valid_before |->
                               is_chain_valid(variant, difficulty, chain, TRUE).valid]
    /\ ret' = NoRet
    /\ UNCHANGED <<merkle_call, variant, difficulty, hash_algorithm, cand, pc, now>>

MineCallNext ==
    \/ CreateGenesisBlock
    \/ Untouched /\ StartAppend
    \/ MineStep
    \/ FinishMine
    \/ IsChainValid
    \/ TamperData
    \/ TamperHash
    \/ MineCall

MineCallSpec == Init /\ [][MineCallNext]_vars

\* ------------------------------------------------- add_block(new_block)
\* Blocks a client of the Task_1 programs builds with Block(index,
\* timestamp, data, previous_hash) and hands to add_block: numbered and
\* stamped as the client pleases, linked to the tip or to the sentinel.
CallerBlocks(v, c, t) ==
    { NewBlock(v, index, timestamp, data, previous_hash, ChainAlgorithm(v)) :
        index \in {Len(c), Len(c) + MaxLen},
        timestamp \in {0, t},
        data \in PayloadInputs(v),
        previous_hash \in {Sentinel, Latest(c).hash} }

\* An add_block that takes the block as it was built.
Relinked_AsBuilt(b, c) == b

\* new_block.previous_hash = self.get_latest_block().hash
Relinked(b, c) == [b EXCEPT !.previous_hash = Latest(c).hash]

\* add_block(new_block) of the Task_1 programs up to the mining loop.
AddBlockCall ==
    /\ pc = "idle"
    /\ variant # "BC"
    /\ Len(chain) < MaxLen
    /\ \E b \in CallerBlocks(variant, chain, now) :
        /\ arg' = [op |-> "add_block", isList |-> FALSE, value |-> b]
        /\ cand' = <<Relinked(b, chain)>>
    /\ pc' = "mine"
    /\ ret' = NoRet
    /\ UNCHANGED <<merkle_call, variant, difficulty, hash_algorithm, chain, now, attack>>

AddBlockNext ==
    \/ CreateGenesisBlock
    \/ AddBlockCall
    \/ variant = "BC" /\ StartAppend
    \/ MineStep
    \/ FinishMine
    \/ IsChainValid

AddBlockSpec == Init /\ [][AddBlockNext]_vars

\* -------------------------------------------------------------- properties

\* A chain at rest that only construction and append have touched.
Built == pc = "idle" /\ ~attacked

Verified == ret.op = "verify"

\* C1: on a chain of at least three blocks built by construction and append
\* alone, from any payloads append accepts, verify returns valid and names
\* no failing block.
C1_RoundTripValid ==
    (Verified /\ Built /\ Len(chain) >= 3) => (ret.valid /\ ret.fails = <<>>)

\* C2: in every state, also between the steps of an append, the stored
\* digest of every block in the chain has at least `difficulty` leading
\* zero digits.
C2_ChainBlocksSealed ==
    \A i \in 1..Len(chain) : StartsWithZeros(chain[i].hash, difficulty)

\* C3: once the chain is constructed its genesis block has index 0, the
\* sentinel as previous_hash and a stored digest that passes proof of work.
C3_GenesisWellFormed ==
    (pc # "new" /\ Len(chain) >= 1) =>
        /\ chain[1].index = 0
        /\ chain[1].previous_hash = Sentinel
        /\ StartsWithZeros(chain[1].hash, difficulty)

\* C4: the stored digest of every block in a chain built by construction and
\* append equals the digest recomputed from the block's header fields.
C4_DigestMatchesHeader ==
    \A i \in 1..Len(chain) : chain[i].hash = calculate_hash(variant, chain[i])

C4_Witness ==
    /\ Built
    /\ Len(chain) >= 3
    /\ \A i \in 1..Len(chain) : chain[i].nonce > 0

\* C5: in a chain built by construction and append the block at position i
\* has index i and, for i > 0, its previous_hash is the stored digest of the
\* block at position i - 1.
C5_IndexAndLinkage ==
    \A p \in 1..Len(chain) :
        /\ chain[p].index = p - 1
        /\ p > 1 => chain[p].previous_hash = chain[p - 1].hash

C5_Witness == Built /\ Len(chain) >= 3 /\ Latest(chain).index = Len(chain) - 1

\* C6: append only adds: a step never shortens the chain nor changes a block
\* already in it, and the step that ends an append lengthens the chain by
\* exactly one block, the candidate, placed last.
C6_AppendOnly ==
    [][ /\ Len(chain') >= Len(chain)
        /\ \A i \in 1..Len(chain) : chain'[i] = chain[i]
        /\ (pc = "mine" /\ pc' = "idle") =>
              /\ Len(chain') = Len(chain) + 1
              /\ Latest(chain').data = cand[1].data
              /\ Latest(chain').index = cand[1].index
              /\ Latest(chain').timestamp = cand[1].timestamp
        /\ (pc = pc') => Len(chain') = Len(chain) ]_vars

C6_Witness == Built /\ Len(chain) >= 3 /\ chain[2].data # chain[3].data

\* C7: a verify step changes neither the chain nor the difficulty, whether it
\* returns valid or invalid, and verifying again right away returns the same
\* outcome.
C7_VerifyReadOnly ==
    [][ ret'.op = "verify" =>
          /\ chain' = chain
          /\ difficulty' = difficulty
          /\ Verified => (ret'.valid = ret.valid /\ ret'.fails = ret.fails) ]_vars

C7_Witness == Verified /\ ~ret.valid /\ attacked /\ attack.valid_before

\* The checks evaluated on the block at chain position i, in order, and the
\* failures found on it.
BlockChecks(i) ==
    LET OfBlock(e) == e[1] = i
        t == SelectSeq(ret.trace, OfBlock)
    IN  [k \in 1..Len(t) |-> t[k][2]]

BlockFails(i) ==
    LET OfBlock(e) == e[1] = i
        t == SelectSeq(ret.fails, OfBlock)
    IN  [k \in 1..Len(t) |-> t[k][2]]

Positions == 1..(Len(chain) - 1)

RankIn(order, check) == CHOOSE k \in 1..Len(order) : order[k] = check

\* Whether the block at position i violates the named check.
Violates(i, check) == CheckFails(variant, difficulty, chain, i + 1, check)

\* The order of section 4.5, and the checks of it that apply to a variant:
\* Merkle integrity where transactions are carried, payload type where the
\* payload is a scalar.
C8_SpecOrder == <<"index", "link", "merkle", "hash", "pow", "time", "type">>

C8_Applies(check) ==
    CASE check = "merkle" -> variant = "R2"
      [] check = "type"   -> variant # "R2"
      [] OTHER            -> TRUE

C8_Order ==
    [T1 |-> <<"index", "link", "hash", "pow", "time", "type">>,
     R1 |-> <<"index", "link", "hash", "pow", "time", "type">>,
     R2 |-> <<"index", "link", "merkle", "hash", "pow", "time">>,
     BC |-> <<"hash", "link", "pow">>]

C9_StopsAtFirstFailure ==
    (Verified /\ ~ret.valid) =>
        /\ Len(ret.fails) = 1
        /\ \A k \in 1..Len(ret.trace) : ret.trace[k][1] <= ret.fails[1][1]
        /\ \A k \in 1..Len(ret.reports) : ret.reports[k].shown = ret.reports[k].i

\* C10: on a chain that was valid, after the payload of an interior block k
\* was overwritten with a different value and neither merkle_root nor the
\* digest was recomputed, verify returns invalid and its first failure is a
\* Merkle or digest mismatch at position k.
C10_PayloadEditDetected ==
    ( /\ Verified
      /\ attack.kind = "data"
      /\ ~attack.updated
      /\ attack.valid_before
      /\ 1 < attack.pos
      /\ attack.pos < Len(chain) ) =>
        /\ ~ret.valid
        /\ ret.fails[1][1] = attack.pos - 1
        /\ ret.fails[1][2] \in {"merkle", "hash"}

\* C11: on a chain that was valid, after the transactions of a block k >= 1
\* were overwritten and update_merkle_root() was called on it, with no
\* re-mining, verify returns invalid and its first failure is the digest
\* mismatch at position k (not a proof-of-work failure).
C11_MerkleRecomputeDetected ==
    ( /\ Verified
      /\ attack.kind = "data"
      /\ attack.updated
      /\ attack.valid_before
      /\ attack.pos > 1 ) =>
        /\ ~ret.valid
        /\ ret.fails[1] = <<attack.pos - 1, "hash">>

\* The attack of the given kind was made on block k >= 1 of a chain that
\* was valid, and verify has run since.
AttackVerified(kind) ==
    /\ Verified
    /\ attack.kind = kind
    /\ attack.valid_before
    /\ attack.pos > 1

C13_ForgedDigestDetected ==
    ( /\ AttackVerified("hash")
      /\ chain[attack.pos].hash # calculate_hash(variant, chain[attack.pos]) ) =>
        /\ ~ret.valid
        /\ ret.fails[1][1] = attack.pos - 1
        /\ IF StartsWithZeros(chain[attack.pos].hash, difficulty)
           THEN ret.fails[1][2] = "hash"
           ELSE ret.fails[1][2] \in {"pow", "hash"}

C13_Witness ==
    /\ AttackVerified("hash")
    /\ attack.pos < Len(chain)
    /\ ~StartsWithZeros(chain[attack.pos].hash, difficulty)
    /\ ret.fails[1] = <<attack.pos - 1, "hash">>

C15_GenesisChecked ==
    (Verified /\ ret.valid) =>
        /\ chain[1].index = 0
        /\ chain[1].previous_hash = Sentinel
        /\ chain[1].hash = calculate_hash(variant, chain[1])
        /\ StartsWithZeros(chain[1].hash, difficulty)
        /\ ~(attack.kind = "data" /\ attack.pos = 1)

\* Block at chain position p - 1 carries a timestamp smaller than that of
\* the block before it; the first such position.
Regresses(p) == chain[p].timestamp < chain[p - 1].timestamp

SomeRegress == \E p \in 2..Len(chain) : Regresses(p)

FirstRegress == CHOOSE p \in 2..Len(chain) :
                    Regresses(p) /\ \A q \in 2..(p - 1) : ~Regresses(q)

NonStr(p) == variant # "R2" /\ ~chain[p].data.isStr

SomeNonStr == \E p \in 2..Len(chain) : NonStr(p)

FirstNonStr == CHOOSE p \in 2..Len(chain) :
                   NonStr(p) /\ \A q \in 2..(p - 1) : ~NonStr(q)

\* Every block is sealed: the payload in question was appended, or the
\* chain was sealed again after it was written over a block.
SealedThroughout == ~attacked \/ attack.resealed

C18_Kind ==
    [index |-> "StructuralViolation", link |-> "StructuralViolation",
     merkle |-> "IntegrityViolation", hash |-> "IntegrityViolation",
     pow |-> "PoWViolation", time |-> "TemporalViolation",
     type |-> "TypeViolation"]

\* C18: the outcome of a verify that returns invalid tells which kind of
\* violation occurred: it carries a failure report, and the report is that
\* of a check standing for one kind.
C18_KindDistinguished ==
    (Verified /\ ~ret.valid) =>
        /\ ret.reports # <<>>
        /\ ret.reports[1].check \in DOMAIN C18_Kind

\* C19: a constructor call with difficulty <= 0 or with a selector outside
\* the supported set fails: no genesis block is built and the chain stays
\* empty.
C19_BadArgumentsRejected ==
    (difficulty <= 0 \/ hash_algorithm \notin SupportedAlgorithms) =>
        (chain = <<>> /\ cand = <<>>)


\* ---- append to a chain whose blocks were overwritten
\* The chain is a public list of mutable blocks: mine_block / add_block can
\* be called after a field of the tip was overwritten.
AppendNext ==
    \/ CreateGenesisBlock
    \/ StartAppend
    \/ MineStep
    \/ FinishMine
    \/ IsChainValid
    \/ TamperIndex
    \/ TamperHash

AppendSpec == Init /\ [][AppendNext]_vars

\* C20: whatever the state of the chain when append is called, the candidate
\* it builds has index = tip.index + 1 and previous_hash = the digest stored
\* in the tip.
C20_CandidateFromTip ==
    [][(pc = "idle" /\ pc' = "mine") =>
           /\ cand'[1].index = Latest(chain).index + 1
           /\ cand'[1].previous_hash = Latest(chain).hash]_vars


\* ---- C21
LeafHash(tx) == Sha256Hex(TxString(tx))
PairHash(left, right) == Sha256Hex(left \o right)

\* A layer with its last node repeated when the layer is odd, and the
\* parents of its pairs.
Padded(layer) ==
    IF Len(layer) % 2 = 1 THEN Append(layer, layer[Len(layer)]) ELSE layer
Parents(layer) ==
    LET p == Padded(layer)
    IN  [j \in 1..(Len(p) \div 2) |-> PairHash(p[2 * j - 1], p[2 * j])]

RECURSIVE RootOf(_)
RootOf(layer) == IF Len(layer) = 1 THEN layer[1] ELSE RootOf(Parents(layer))

\* C21: the Merkle root of [a, b, c] is
\* hash(hash(hash(a)||hash(b)) || hash(hash(c)||hash(c))); for every
\* non-empty list the root is the one obtained by pairing, at every layer
\* of odd length above one node, the last node with itself.
C21_OddNodeDuplicated ==
    LET txs == merkle_call.transactions
    IN  merkle_call.returned =>
          /\ Len(txs) = 3 =>
                merkle_call.root =
                    PairHash(PairHash(LeafHash(txs[1]), LeafHash(txs[2])),
                             PairHash(LeafHash(txs[3]), LeafHash(txs[3])))
          /\ Len(txs) >= 1 =>
                merkle_call.root = RootOf([i \in 1..Len(txs) |-> LeafHash(txs[i])])

\* A returned call on five records, the last unlike the others: odd layers
\* of five and of three nodes.
C21_Witness ==
    LET txs == merkle_call.transactions
    IN  /\ merkle_call.returned
        /\ Len(txs) = 5
        /\ \A i \in 1..4 : txs[i] # txs[5]


\* ---- C22
\* hashlib.sha256(b'').hexdigest(), written out: the digest of the string
\* of no characters.
EmptyDigest == <<Mix(<<>>)>>

\* C22: the Merkle root of the empty sequence of transactions is the digest
\* of the empty byte string.
C22_EmptyBatchRoot ==
    (merkle_call.returned /\ merkle_call.transactions = <<>>) =>
        merkle_call.root = EmptyDigest

C22_Witness ==
    /\ merkle_call.returned
    /\ merkle_call.transactions = <<>>
    /\ Len(merkle_call.root) = 1


\* ---- the system clock
\* time.time() reads the system clock, which can be set back between two
\* calls (the time module documents it); Spec runs on a clock that is not.
ClockSetBack ==
    /\ \E t \in Clock : t < now /\ now' = t
    /\ UNCHANGED <<arg, merkle_call, variant, difficulty, hash_algorithm, chain, cand,
                   pc, attack, ret>>

ClockNext ==
    \/ CreateGenesisBlock
    \/ StartAppend
    \/ MineStep
    \/ FinishMine
    \/ IsChainValid
    \/ ClockSetBack

ClockSpec == Init /\ [][ClockNext]_vars

\* C23: in a chain built by construction and append, no block's timestamp
\* is smaller than its predecessor's.
C23_TimestampsNonDecreasing ==
    Built => \A i \in 2..Len(chain) :
                 chain[i].timestamp >= chain[i - 1].timestamp


\* ---- C24
IsGenesis(b) == b.index = 0 /\ b.previous_hash = Sentinel

DistinctBlocks ==
    \A i, j \in 1..Len(chain) :
        i # j => /\ chain[i].index # chain[j].index
                 /\ chain[i].previous_hash # chain[j].previous_hash

HashInputs(b) ==
    <<b.index, b.timestamp, b.data, b.merkle_root, b.previous_hash, b.nonce,
      b.hash_algorithm>>

MeetsAt(b, n) ==
    StartsWithZeros(calculate_hash(variant, [b EXCEPT !.nonce = n]), difficulty)

\* b carries the least nonce from `entry` on whose header digest meets the
\* target.
LeastFrom(b, entry) ==
    /\ b.nonce >= entry
    /\ MeetsAt(b, b.nonce)
    /\ \A n \in entry..(b.nonce - 1) : ~MeetsAt(b, n)

\* The miner returns from an append or construction / from a call on the
\* block at attack.pos.
MinerReturns == pc = "mine" /\ pc' = "idle"
ReminerReturns == attacked /\ ~attack.resealed /\ attack'.resealed

\* The nonce moves by exactly 1 per iteration of the loop of an append.
StepsByOne ==
    /\ (pc # "mine" /\ pc' = "mine") => cand'[1].nonce = 0
    /\ (pc = "mine" /\ pc' = "mine") => cand'[1].nonce = cand[1].nonce + 1

\* C27: the miner starts from the nonce the block has at entry (0 for the
\* blocks construction and append build), adds exactly 1 per iteration,
\* and returns at the least nonce from the entry nonce on whose header
\* digest has `difficulty` leading zeros.
C27_LeastNonce ==
    [][/\ StepsByOne
       /\ MinerReturns => LeastFrom(Latest(chain'), 0)
       /\ ReminerReturns =>
             LeastFrom(chain'[attack.pos], chain[attack.pos].nonce)]_vars


\* ---- C28
\* Some nonce from the candidate's on yields a digest that meets the
\* target; the first digits of the digests of PrefixSpace consecutive
\* nonces cover every value.
SomeNonceMeets ==
    \E n \in cand[1].nonce..(cand[1].nonce + PrefixSpace) : MeetsAt(cand[1], n)

\* A sealed block: the stored digest is the header's and meets the target.
Sealed(b) ==
    /\ b.hash = calculate_hash(variant, b)
    /\ StartsWithZeros(b.hash, difficulty)

SameButSeal(a, b) ==
    /\ a.index = b.index
    /\ a.timestamp = b.timestamp
    /\ a.data = b.data
    /\ a.merkle_root = b.merkle_root
    /\ a.previous_hash = b.previous_hash
    /\ a.hash_algorithm = b.hash_algorithm

\* C29: an iteration of the miner, its return and a run of the miner on a
\* block of the chain leave index, timestamp, payload, merkle_root and
\* previous_hash of the block as they were; no other step changes the
\* nonce of a block.
C29_MiningFrame ==
    [][/\ (pc = "mine" /\ pc' = "mine") => SameButSeal(cand[1], cand'[1])
       /\ MinerReturns =>
             /\ SameButSeal(cand[1], Latest(chain'))
             /\ SubSeq(chain', 1, Len(chain)) = chain
       /\ ReminerReturns =>
             /\ Len(chain') = Len(chain)
             /\ SameButSeal(chain[attack.pos], chain'[attack.pos])
             /\ \A i \in 1..Len(chain) : i # attack.pos => chain'[i] = chain[i]
       /\ ~ReminerReturns =>
             \A i \in 1..Len(chain) :
                 i <= Len(chain') /\ chain'[i].nonce = chain[i].nonce
       /\ pc # "mine" => cand = <<>>]_vars

\* The miner has run for several iterations on a new block and again on a
\* block of the chain.
C29_Witness ==
    /\ attacked /\ attack.resealed
    /\ Len(chain) >= 2
    /\ Latest(chain).nonce >= 2
    /\ variant # "BC" => Sealed(chain[attack.pos])


\* ---- C30
\* A block as its constructor leaves it.
SelfConsistent(b) ==
    /\ b.nonce = 0
    /\ variant = "R2" => b.merkle_root = calculate_merkle_root(b.data)
    /\ b.hash = calculate_hash(variant, b)

InteriorResealed ==
    /\ AttackVerified("data")
    /\ attack.resealed
    /\ attack.pos < Len(chain)

\* C31: after the payload of an interior block k of a valid chain was
\* changed and block k alone re-sealed, verify returns invalid and its
\* first failure is the broken linkage at block k + 1.
C31_ResealOneBreaksLink ==
    InteriorResealed =>
        /\ ~ret.valid
        /\ ret.fails[1] = <<attack.pos, "link">>


\* ---- C32
\* C32: the Merkle root of a batch of one record is the digest of that
\* record's leaf; the leaf is not paired with itself.
C32_SingleLeafRoot ==
    LET txs == merkle_call.transactions
    IN  (merkle_call.returned /\ Len(txs) = 1) =>
          /\ merkle_call.root = LeafHash(txs[1])
          /\ merkle_call.root # PairHash(LeafHash(txs[1]), LeafHash(txs[1]))

\* A returned call on one record that is not a str (its leaf is the digest
\* of its JSON text).
C32_Witness ==
    /\ merkle_call.returned
    /\ Len(merkle_call.transactions) = 1
    /\ ~merkle_call.transactions[1].isStr


\* ---- C33
\* A call of mine_block of the Merkle variant has returned: its block is
\* the tip.
MineBlockReturned ==
    /\ variant = "R2"
    /\ arg.op = "mine_block"
    /\ pc = "idle"

\* C33: in the Merkle variant an append of the empty transaction list
\* yields a sealed block whose merkle_root is the digest of the empty byte
\* string, and a chain holding such a block passes verify; an argument
\* that is not a list is the one element of the list the block is built
\* with.
C33_EmptyAndWrappedAppend ==
    /\ (MineBlockReturned /\ arg.isList /\ arg.value = <<>>) =>
          /\ Latest(chain).data = <<>>
          /\ Latest(chain).merkle_root = EmptyDigest
          /\ Sealed(Latest(chain))
    /\ (MineBlockReturned /\ Verified
            /\ \E i \in 1..Len(chain) : chain[i].data = <<>>) => ret.valid
    /\ (variant = "R2" /\ arg.op = "mine_block" /\ ~arg.isList) =>
          /\ pc = "mine" => cand[1].data = <<arg.value>>
          /\ pc = "idle" =>
                /\ Latest(chain).data = <<arg.value>>
                /\ Latest(chain).merkle_root = LeafHash(arg.value)

\* A verified chain of the Merkle variant holding a block of no
\* transactions and, after it, a block built from a str that was not in a
\* list.
C33_Witness ==
    /\ MineBlockReturned
    /\ Verified
    /\ Len(chain) = 3
    /\ chain[2].data = <<>>
    /\ ~arg.isList
    /\ arg.value = PyStr(<<1, 2>>)


\* ---- C34
\* The header dict of a block with its items inserted in the order p.
Reordered(items, p) == [i \in 1..Len(items) |-> items[p[i]]]
Orders(items) == Permutations(1..Len(items))

\* C34: the canonical encoding of a block header does not depend on the
\* order in which the fields were put into the dict: every insertion order
\* gives the same text, and so the digest stored in the block when it is
\* appended (every block of the chain has been the tip of a chain at rest).
C34_EncodingOrderIndependent ==
    (pc = "idle" /\ Len(chain) >= 1) =>
        LET items == HeaderItems(variant, Latest(chain))
        IN  \A p \in Orders(items) :
              /\ JsonDumps(Reordered(items, p)) = JsonDumps(items)
              /\ Built =>
                    Latest(chain).hash =
                        HashHex(Latest(chain).hash_algorithm,
                                JsonDumps(Reordered(items, p)))

\* A full chain whose tip's header is not inserted in key order.
C34_Witness ==
    /\ Built
    /\ Len(chain) = MaxLen
    /\ SortItems(HeaderItems(variant, Latest(chain))) # HeaderItems(variant, Latest(chain))


\* ---- C35
OddFromThree(n) == n >= 3 /\ n % 2 = 1

C36_MinedBlockSealed ==
    /\ (pc = "idle" /\ ~attacked) =>
          \A i \in 2..Len(chain) : Sealed(chain[i])
    /\ (attacked /\ attack.resealed) => Sealed(chain[attack.pos])


\* ---- C37
\* The blocks after the genesis block are numbered from the tip and linked
\* to it, and hold payloads that were serialized.
AppendedInOrder ==
    \A i \in 2..Len(chain) :
        /\ chain[i].index = chain[i - 1].index + 1
        /\ chain[i].previous_hash = chain[i - 1].hash
        /\ Constructs(variant, chain[i].data)

\* C37: an append that raises because its payload cannot be serialized
\* leaves the chain, the block being built and every setting exactly as
\* they were; the appends made before and after it are numbered and linked
\* as if it had not been made.
C37_FailedAppendLeavesChain ==
    /\ [][ret'.op = "raise" =>
            /\ chain' = chain
            /\ cand' = cand
            /\ pc' = pc
            /\ difficulty' = difficulty
            /\ hash_algorithm' = hash_algorithm]_vars
    /\ [](pc = "idle" => AppendedInOrder)

\* A call on a chain of two blocks has raised on a list holding a set.
C37_Witness ==
    /\ ret.op = "raise"
    /\ Len(chain) = 2
    /\ arg.isList
    /\ ~Constructs(variant, arg.value)


\* ---- C38
\* What verify returns for the chain as it is under the difficulty d.
ValidAt(d) == is_chain_valid(variant, d, chain, TRUE)

\* C38: a chain that is valid under a difficulty d is valid under every
\* difficulty from 0 to d; under a higher difficulty it is valid or fails
\* first on the proof-of-work check; and a verify made after the
\* difficulty of a valid chain was changed returns accordingly.
C38_ValidityAntiMonotone ==
    /\ pc = "idle" =>
          LET at == [d \in DifficultySettings |-> ValidAt(d)]
          IN  \A d1, d2 \in DifficultySettings :
                  d1 <= d2 =>
                      /\ at[d2].valid => at[d1].valid
                      /\ (at[d1].valid /\ ~at[d2].valid) =>
                            at[d2].fails[1][2] = "pow"
    /\ (Verified /\ attack.kind = "difficulty" /\ attack.valid_before) =>
          \/ ret.valid
          \/ /\ ret.fails[1][2] = "pow"
             /\ \E d \in 0..(difficulty - 1) : ValidAt(d).valid

\* A verify that failed on proof of work after the difficulty of a valid
\* chain of three blocks was raised.
C38_Witness ==
    /\ Verified
    /\ attack.kind = "difficulty"
    /\ attack.valid_before
    /\ Len(chain) = MaxLen
    /\ ~ret.valid
    /\ ret.fails[1][2] = "pow"


AsSupplied(b) ==
    /\ b.index = arg.value.index
    /\ b.timestamp = arg.value.timestamp
    /\ b.data = arg.value.data

\* C40: add_block(new_block) sets the block's previous_hash to the tip's
\* stored digest before it mines: while the block is mined and once it is
\* appended, its previous_hash is the digest of the block before it,
\* whatever the caller built it with, its index and timestamp are the
\* caller's, and the digest it is sealed with is that of the relinked
\* header.
C40_AddBlockRelinks ==
    arg.op = "add_block" =>
        /\ pc = "mine" =>
              /\ cand[1].previous_hash = Latest(chain).hash
              /\ AsSupplied(cand[1])
        /\ pc = "idle" =>
              /\ Latest(chain).previous_hash = chain[Len(chain) - 1].hash
              /\ AsSupplied(Latest(chain))
              /\ Sealed(Latest(chain))

\* An appended block the caller had linked to the sentinel, numbered out
\* of sequence and stamped 0.
C40_Witness ==
    /\ arg.op = "add_block"
    /\ pc = "idle"
    /\ Len(chain) = MaxLen
    /\ arg.value.previous_hash = Sentinel
    /\ arg.value.index # Len(chain) - 1
    /\ arg.value.timestamp = 0
    /\ Latest(chain).previous_hash # Sentinel

====
